---- MODULE Spec2Model ----
(***************************************************************************)
(* Model of scripts/install_dev_python_modules.py.                         *)
(*                                                                         *)
(* A Python string is represented by what s.split(" ") returns: a          *)
(* non-empty sequence of space-free words, so that "" is <<"">> and        *)
(* "-e a/b" is <<"-e", "a/b">>.  " ".join, str.strip and the shell's word  *)
(* splitting are computed on that representation.  A line read from a pipe *)
(* is the text of the line without its terminator; the zero-length read    *)
(* that readline() returns at end-of-file is EOF.                          *)
(***************************************************************************)
EXTENDS Integers, Sequences, FiniteSets, TLC

\* ------------------------------------------------------------------ bounds
MaxLines == 2          \* lines one installer process writes at most

Versions == {<<3, 8>>, <<3, 9>>, <<3, 10>>}     \* sys.version_info[:2]
OsNames == {"nt", "posix"}                       \* os.name
QuietArgs == {<<"">>, <<"-q">>, <<"--log", "pip.log">>}   \* sys.argv[1] or ""
ExitCodes == {0, 1}

VARIABLES
  version,          \* sys.version_info of the interpreter
  os_name,          \* os.name
  quiet,            \* main's parameter
  pc,               \* position of main
  cmd,              \* main's local cmd (a list of strings)
  install_targets,  \* main's local install_targets
  p,                \* which Popen object main's local p is bound to (0: none)
  output,           \* main's local output
  console,          \* what main has printed, one entry per print call
  procs,            \* installer processes started so far, in start order
  shell,            \* the shell started by Popen(..., shell=True)
  pipes,            \* pipes[k]: lines written to Popen k's stdout, not yet read
  written           \* written[k]: every line written to Popen k's stdout

vars == <<version, os_name, quiet, pc, cmd, install_targets, p, output,
          console, procs, shell, pipes, written>>

\* ------------------------------------------------------------ pure helpers
EOF == <<>>
None == <<>>

\* bool(s) of a Python string
Truthy(s) == s # <<"">>

\* tuple comparison a >= b, as Python compares tuples
RECURSIVE TupleGE(_, _)
TupleGE(a, b) ==
  IF b = <<>> THEN TRUE
  ELSE IF a = <<>> THEN FALSE
  ELSE IF Head(a) # Head(b) THEN Head(a) > Head(b)
  ELSE TupleGE(Tail(a), Tail(b))

is_39_strict(v) == TupleGE(v, <<3, 9>>) /\ v # <<3, 9>>
is_39(v) == TupleGE(v, <<3, 9>>)

\* " ".join(list); l is the evaluated list
RECURSIVE Join(_)
Join(list) ==
  CHOOSE r \in { IF l = <<>> THEN <<"">>
                 ELSE IF Len(l) = 1 THEN l[1]
                 ELSE Join(SubSeq(l, 1, Len(l) \div 2))
                        \o Join(SubSeq(l, Len(l) \div 2 + 1, Len(l)))
                 : l \in {list} } : TRUE

\* str.strip()
RECURSIVE LStrip(_)
LStrip(s) == IF s = <<>> THEN <<>>
             ELSE IF Head(s) = "" THEN LStrip(Tail(s)) ELSE s
RECURSIVE RStrip(_)
RStrip(s) == IF s = <<>> THEN <<>>
             ELSE IF s[Len(s)] = "" THEN RStrip(SubSeq(s, 1, Len(s) - 1)) ELSE s
Strip(s) == LET t == RStrip(LStrip(s)) IN IF t = <<>> THEN <<"">> ELSE t

\* the k-th line an installer writes
LineText(k) == IF k % 2 = 1 THEN <<"Collecting", "pkg">>
               ELSE <<"", "", "Downloading", "pkg.whl">>

\* ------------------------------------------------------- command building
E(path) == <<"-e", path>>

PysparkCmd(q) ==
  LET base == << <<"pip">>, <<"--no-cache-dir">>, <<"install">>, <<"pyspark>=3.0.1">> >>
  IN IF Truthy(q) THEN Append(base, q) ELSE base

VersionPins(v) ==
  IF is_39(v) THEN << <<"Cython==0.29.21">>, <<"numpy==1.18.5">> >> ELSE <<>>

BaseTargets == <<
  <<"awscli">>,
  E("python_modules/dagster[test]"),
  E("python_modules/dagster-graphql"),
  E("python_modules/dagster-test"),
  E("python_modules/dagit"),
  E("python_modules/automation"),
  E("python_modules/libraries/dagster-pandas"),
  E("python_modules/libraries/dagster-aws[test]"),
  E("python_modules/libraries/dagster-celery"),
  E("python_modules/libraries/dagster-celery-docker"),
  E("python_modules/libraries/dagster-cron"),
  E("\"python_modules/libraries/dagster-dask[yarn,pbs,kube]\""),
  E("python_modules/libraries/dagster-datadog"),
  E("python_modules/libraries/dagster-dbt"),
  E("python_modules/libraries/dagster-docker"),
  E("python_modules/libraries/dagster-gcp"),
  E("python_modules/libraries/dagster-k8s"),
  E("python_modules/libraries/dagster-celery-k8s"),
  E("python_modules/libraries/dagster-github"),
  E("python_modules/libraries/dagster-mysql"),
  E("python_modules/libraries/dagster-pagerduty"),
  E("python_modules/libraries/dagster-papertrail"),
  E("python_modules/libraries/dagster-postgres"),
  E("python_modules/libraries/dagster-prometheus"),
  E("python_modules/libraries/dagster-spark"),
  E("python_modules/libraries/dagster-pyspark"),
  E("python_modules/libraries/dagster-databricks"),
  E("python_modules/libraries/dagster-shell"),
  E("python_modules/libraries/dagster-slack"),
  E("python_modules/libraries/dagster-ssh"),
  E("python_modules/libraries/dagster-twilio"),
  E("python_modules/libraries/lakehouse"),
  E("python_modules/libraries/dagster-airflow"),
  E("integration_tests/python_modules/dagster-k8s-test-infra"),
  <<"-r", "scala_modules/scripts/requirements.txt">>,
  E("python_modules/libraries/dagster-azure"),
  E("helm/dagster/schema[test]") >>

PlatformTargets_always(os) == << E("python_modules/libraries/dagster-ge") >>
PlatformTargets(os) ==
  IF ~(os = "nt") THEN << E("python_modules/libraries/dagster-ge") >> ELSE <<>>

LegacyTargets_same_gate(v) ==
  IF is_39(v)
  THEN << E("python_modules/libraries/dagster-snowflake"),
          E("python_modules/libraries/dagstermill"),
          E("\"examples/airline_demo[full]\"") >>
  ELSE <<>>
LegacyTargets(v) ==
  IF ~is_39(v)
  THEN << E("python_modules/libraries/dagster-snowflake"),
          E("python_modules/libraries/dagstermill"),
          E("\"examples/airline_demo[full]\"") >>
  ELSE <<>>

InstallTargets(v, os) ==
  VersionPins(v) \o BaseTargets \o PlatformTargets(os) \o LegacyTargets(v)

Connector_semicolon == ";"
Connector == "&&"

CombinedCmd_base_only(targets, q) ==
  LET c1 == << <<"pip">>, <<"install">>, <<"--no-deps">> >> \o targets
      c2 == IF Truthy(q) THEN Append(c1, q) ELSE c1
      c3 == c2 \o << <<Connector>>, <<"pip">>, <<"install">> >> \o BaseTargets
  IN IF Truthy(q) THEN Append(c3, q) ELSE c3
CombinedCmd(targets, q) ==
  LET c1 == << <<"pip">>, <<"install">>, <<"--no-deps">> >> \o targets
      c2 == IF Truthy(q) THEN Append(c1, q) ELSE c1
      c3 == c2 \o << <<Connector>>, <<"pip">>, <<"install">> >> \o targets
  IN IF Truthy(q) THEN Append(c3, q) ELSE c3

\* ------------------------------------------------------------- the shell
ShellOps == {"&&", ";"}

\* quote removal on one word
Unquote(w) ==
  CASE w = "\"python_modules/libraries/dagster-dask[yarn,pbs,kube]\""
         -> "python_modules/libraries/dagster-dask[yarn,pbs,kube]"
    [] w = "\"examples/airline_demo[full]\"" -> "examples/airline_demo[full]"
    [] OTHER -> w

\* the words ws of a command line as a list of simple commands, each with
\* the operator that precedes it; every argument of an argv is one word
SplitWords(ws) ==
  LET ops == {i \in 1..Len(ws) : ws[i] \in ShellOps}
      n == Cardinality(ops) + 1
      Pos(j) == IF j = 0 THEN 0
                ELSE IF j = n THEN Len(ws) + 1
                ELSE CHOOSE i \in ops : Cardinality({x \in ops : x < i}) = j - 1
  IN [j \in 1..n |->
        [op |-> IF j = 1 THEN "" ELSE ws[Pos(j - 1)],
         argv |-> [i \in 1..(Pos(j) - Pos(j - 1) - 1) |->
                     <<Unquote(ws[Pos(j - 1) + i])>>]]]

\* sh -c line: words are split at spaces
ShellParse(line) ==
  CHOOSE r \in { SplitWords(ws) : ws \in {SelectSeq(line, LAMBDA w : w # "")} } : TRUE

\* ----------------------------------------------------------- process view
Alive == {i \in 1..Len(procs) : procs[i].alive}

\* p.poll() of Popen k
Poll(k) ==
  IF k = 1 THEN (IF procs[1].alive THEN None ELSE <<procs[1].rc>>)
  ELSE (IF shell.state = "exited" THEN <<shell.rc>> ELSE None)

\* every write end of Popen k's stdout pipe is closed
PipeClosed(k) ==
  IF k = 1 THEN ~procs[1].alive
  ELSE shell.state = "exited" /\ \A i \in 2..Len(procs) : ~procs[i].alive

\* the test that leaves the read loop
PollBreak_inverted(polled) == polled = None
PollBreak_never(polled) == FALSE
PollBreak(polled) == polled # None

\* where main goes when it leaves the read loop of Popen k
AfterLoop_checked(k, polled) ==
  IF polled # <<0>> THEN "done" ELSE IF k = 1 THEN "build" ELSE "done"
AfterLoop(k, polled) == IF k = 1 THEN "build" ELSE "done"

\* ------------------------------------------------------------------- Init
Init ==
  /\ version \in Versions
  /\ os_name \in OsNames
  /\ quiet \in QuietArgs
  /\ pc = "start"
  /\ cmd = <<>>
  /\ install_targets = <<>>
  /\ p = 0
  /\ output = EOF
  /\ console = <<>>
  /\ procs = <<>>
  /\ shell = [state |-> "none", rc |-> 0, cmds |-> <<>>, idx |-> 0]
  /\ pipes = << <<>>, <<>> >>
  /\ written = << <<>>, <<>> >>

\* ---------------------------------------------------------- main's steps
NewProc(argv, k) == [argv |-> argv, popen |-> k, alive |-> TRUE, rc |-> 0, n |-> 0]

PopenPyspark ==
  /\ pc = "start"
  /\ LET c == PysparkCmd(quiet)
     IN /\ cmd' = c
        /\ procs' = Append(procs, NewProc(c, 1))
        /\ console' = Append(console, Join(c))
  /\ p' = 1
  /\ pc' = "readline"
  /\ UNCHANGED <<version, os_name, quiet, install_targets, output, shell, pipes, written>>

Readline ==
  /\ pc = "readline"
  /\ \/ /\ pipes[p] # <<>>
        /\ output' = Head(pipes[p])
        /\ pipes' = [pipes EXCEPT ![p] = Tail(@)]
     \/ /\ pipes[p] = <<>>
        /\ PipeClosed(p)
        /\ output' = EOF
        /\ UNCHANGED pipes
  /\ pc' = "poll"
  /\ UNCHANGED <<version, os_name, quiet, cmd, install_targets, p, console,
                 procs, shell, written>>

PollStep ==
  /\ pc = "poll"
  /\ LET polled == Poll(p) IN
       IF PollBreak(polled)
       THEN /\ pc' = AfterLoop(p, polled)
            /\ UNCHANGED console
       ELSE /\ pc' = "readline"
            /\ console' = IF output # EOF THEN Append(console, Strip(output))
                          ELSE console
  /\ UNCHANGED <<version, os_name, quiet, cmd, install_targets, p, output,
                 procs, shell, pipes, written>>

PopenCombined ==
  /\ pc = "build"
  /\ LET targets == InstallTargets(version, os_name)
         c == CombinedCmd(targets, quiet)
         line == Join(c)
     IN /\ install_targets' = targets
        /\ cmd' = c
        /\ shell' = [state |-> "running", rc |-> 0, cmds |-> ShellParse(line), idx |-> 0]
        /\ console' = Append(console, line)
  /\ p' = 2
  /\ pc' = "readline"
  /\ UNCHANGED <<version, os_name, quiet, output, procs, pipes, written>>

\* ------------------------------------------------------ the shell's steps
\* exit status of the last command the shell ran
LastStatus == IF shell.idx = 0 THEN 0 ELSE procs[Len(procs)].rc

\* index of the next command the shell runs after command idx, 0 if none
RECURSIVE NextCmd(_, _)
NextCmd(idx, status) ==
  IF idx >= Len(shell.cmds) THEN 0
  ELSE IF shell.cmds[idx + 1].op = "&&" /\ status # 0 THEN NextCmd(idx + 1, status)
  ELSE idx + 1

ShellSpawn ==
  /\ shell.state = "running"
  /\ \A i \in 2..Len(procs) : ~procs[i].alive
  /\ NextCmd(shell.idx, LastStatus) # 0
  /\ LET j == NextCmd(shell.idx, LastStatus) IN
       /\ shell' = [shell EXCEPT !.idx = j]
       /\ procs' = Append(procs, NewProc(shell.cmds[j].argv, 2))
  /\ UNCHANGED <<version, os_name, quiet, pc, cmd, install_targets, p, output,
                 console, pipes, written>>

ShellExit ==
  /\ shell.state = "running"
  /\ \A i \in 2..Len(procs) : ~procs[i].alive
  /\ NextCmd(shell.idx, LastStatus) = 0
  /\ shell' = [shell EXCEPT !.state = "exited", !.rc = LastStatus]
  /\ UNCHANGED <<version, os_name, quiet, pc, cmd, install_targets, p, output,
                 console, procs, pipes, written>>

\* ------------------------------------------------- the installers' steps
ProcWrite(i) ==
  /\ procs[i].alive
  /\ procs[i].n < MaxLines
  /\ LET k == procs[i].popen
         l == LineText(procs[i].n + 1) IN
       /\ pipes' = [pipes EXCEPT ![k] = Append(@, l)]
       /\ written' = [written EXCEPT ![k] = Append(@, l)]
  /\ procs' = [procs EXCEPT ![i].n = @ + 1]
  /\ UNCHANGED <<version, os_name, quiet, pc, cmd, install_targets, p, output,
                 console, shell>>

ProcExit(i, rc) ==
  /\ procs[i].alive
  /\ procs' = [procs EXCEPT ![i].alive = FALSE, ![i].rc = rc]
  /\ UNCHANGED <<version, os_name, quiet, pc, cmd, install_targets, p, output,
                 console, shell, pipes, written>>

Write == \E i \in 1..Len(procs) : ProcWrite(i)
Exit == \E i \in 1..Len(procs) : \E rc \in ExitCodes : ProcExit(i, rc)

Main == PopenPyspark \/ Readline \/ PollStep \/ PopenCombined

Next ==
  \/ PopenPyspark
  \/ Readline
  \/ PollStep
  \/ PopenCombined
  \/ ShellSpawn
  \/ ShellExit
  \/ Write
  \/ Exit

Spec == Init /\ [][Next]_vars

\* main is scheduled, the shell is scheduled, and every installer exits
LiveSpec ==
  /\ Init /\ [][Next]_vars
  /\ WF_vars(Main)
  /\ WF_vars(ShellSpawn \/ ShellExit)
  /\ WF_vars(Exit)

TypeOK ==
  /\ pc \in {"start", "readline", "poll", "build", "done"}
  /\ p \in 0..2
  /\ shell.state \in {"none", "running", "exited"}
  /\ Len(procs) <= 3

\* ------------------------------------------------------ claim vocabulary
Has(t) == \E i \in 1..Len(install_targets) : install_targets[i] = t
HasArg(argv, w) == \E i \in 1..Len(argv) : argv[i] = <<w>>
Last(seq) == seq[Len(seq)]
StripAll(lines) == [i \in 1..Len(lines) |-> Strip(lines[i])]
AtLeast39 == version[1] > 3 \/ (version[1] = 3 /\ version[2] >= 9)
Cython == <<"Cython==0.29.21">>
Numpy == <<"numpy==1.18.5">>
DagsterGe == E("python_modules/libraries/dagster-ge")
Snowflake == E("python_modules/libraries/dagster-snowflake")
Dagstermill == E("python_modules/libraries/dagstermill")
AirlineDemo == E("\"examples/airline_demo[full]\"")
\* main has left the read loop of the pyspark installer
LeftLoop1 == pc = "build" \/ p = 2
\* the combined command has been built and started
Built == p = 2
\* the words the shell makes of a list of strings
ShellWords(list) ==
  LET ws == SelectSeq(Join(list), LAMBDA w : w # "")
  IN [i \in 1..Len(ws) |-> <<Unquote(ws[i])>>]

\* C1: installer processes run strictly one after another: at most one is
\* alive at any time, the combined command is started only after the pyspark
\* installer has exited, and the with-deps install is started only after the
\* no-deps install has exited.
C1_Sequential ==
  /\ Cardinality(Alive) <= 1
  /\ shell.state # "none" => (Len(procs) >= 1 /\ ~procs[1].alive)
  /\ Len(procs) >= 3 => (~procs[1].alive /\ ~procs[2].alive)

C1_Witness == Len(procs) = 3 /\ procs[3].alive /\ HasArg(procs[2].argv, "--no-deps")

\* C2: when main leaves a read loop, every line the subprocess wrote has
\* been printed, in the order written, none dropped.
C2_NoLineDropped ==
  /\ LeftLoop1 =>
       /\ Len(console) >= 1 + Len(written[1])
       /\ SubSeq(console, 2, 1 + Len(written[1])) = StripAll(written[1])
  /\ pc = "done" =>
       /\ Len(console) = 2 + Len(written[1]) + Len(written[2])
       /\ SubSeq(console, 3 + Len(written[1]), Len(console)) = StripAll(written[2])

\* C3: exit codes are ignored: main returns only after it has started the
\* combined command and seen it exit, and whenever main leaves a read loop it
\* goes on to the same next step (build after the first loop, return after
\* the second) whatever the exit code was.
C3_ExitCodesIgnored ==
  /\ [](pc = "done" => (shell.state = "exited" /\ Len(procs) >= 2
                        /\ install_targets = InstallTargets(version, os_name)))
  /\ [][(pc = "poll" /\ pc' \notin {"poll", "readline"})
          => pc' = (IF p = 1 THEN "build" ELSE "done")]_vars

C3_Witness == pc = "done" /\ procs[1].rc # 0 /\ shell.rc # 0

\* C4: the target list contains the Cython and numpy pins iff the interpreter
\* is at least 3.9, and then they are its first two entries.
C4_VersionGate ==
  Built =>
    /\ Has(Cython) <=> AtLeast39
    /\ Has(Numpy) <=> AtLeast39
    /\ AtLeast39 =>
         /\ install_targets[1] = Cython
         /\ install_targets[2] = Numpy
         /\ install_targets[3] = <<"awscli">>
         /\ \A i \in 1..Len(install_targets) :
              install_targets[i][1] \in {"-e", "-r", "awscli"} => i > 2

C4_Witness == Built /\ version = <<3, 9>> /\ Has(Cython)

\* C5: the target list contains dagster-ge iff os.name is not "nt"; on
\* Windows neither half of the combined command names it.
C5_PlatformGate ==
  Built =>
    /\ Has(DagsterGe) <=> os_name # "nt"
    /\ os_name = "nt" =>
         \A j \in 1..Len(shell.cmds) :
           ~HasArg(shell.cmds[j].argv, "python_modules/libraries/dagster-ge")
    /\ os_name # "nt" =>
         \A j \in 1..Len(shell.cmds) :
           HasArg(shell.cmds[j].argv, "python_modules/libraries/dagster-ge")

C5_Witness == Built /\ os_name = "nt" /\ Len(procs) = 3 /\ AtLeast39

\* C6: dagster-snowflake, dagstermill and airline_demo are in the target list
\* iff the interpreter is below 3.9; every list holds exactly one of the two
\* groups (the pins, or these three).
C6_InverseGate ==
  Built =>
    /\ Has(Snowflake) <=> ~AtLeast39
    /\ Has(Dagstermill) <=> ~AtLeast39
    /\ Has(AirlineDemo) <=> ~AtLeast39
    /\ (Has(Cython) \/ Has(Numpy)) # (Has(Snowflake) \/ Has(Dagstermill) \/ Has(AirlineDemo))

C6_Witness == Built /\ version = <<3, 8>> /\ Has(Snowflake) /\ ~Has(Cython)

\* C7: the no-deps and the with-deps install are one command line, joined by
\* "&&" with no-deps first, and both halves carry the same target list.
C7_SameTargets ==
  Built =>
    LET q == IF Truthy(quiet) THEN <<quiet>> ELSE <<>>
        h1 == shell.cmds[1].argv
        h2 == shell.cmds[2].argv
        t == ShellWords(install_targets)
        n == Len(t)
    IN /\ cmd = << <<"pip">>, <<"install">>, <<"--no-deps">> >> \o install_targets \o q
                 \o << <<"&&">>, <<"pip">>, <<"install">> >> \o install_targets \o q
       /\ Len(shell.cmds) = 2
       /\ shell.cmds[2].op = "&&"
       /\ SubSeq(h1, 1, 3) = << <<"pip">>, <<"install">>, <<"--no-deps">> >>
       /\ SubSeq(h2, 1, 2) = << <<"pip">>, <<"install">> >>
       /\ SubSeq(h1, 4, 3 + n) = t
       /\ SubSeq(h2, 3, 2 + n) = t
       /\ Len(h1) = Len(h2) + 1

C7_Witness == Built /\ Len(procs) = 3 /\ Truthy(quiet) /\ os_name = "posix"

\* C8: a non-empty argument is the last argument, unchanged, of each of the
\* three pip invocations; with no argument none of them has an extra one.
C8_QuietPassThrough ==
  \A i \in 1..Len(procs) :
    LET argv == procs[i].argv
        plain == IF i = 1 THEN PysparkCmd(<<"">>)
                 ELSE IF i = 2
                 THEN << <<"pip">>, <<"install">>, <<"--no-deps">> >>
                        \o ShellWords(InstallTargets(version, os_name))
                 ELSE << <<"pip">>, <<"install">> >>
                        \o ShellWords(InstallTargets(version, os_name))
    IN IF Truthy(quiet) THEN argv = Append(plain, quiet) ELSE argv = plain

\* C9: when every installer exits, main returns; and a read loop is left
\* only on a poll() that reports the process as exited.
C9_Termination ==
  /\ <>(pc = "done")
  /\ [][(pc = "poll" /\ pc' \notin {"poll", "readline"}) => Poll(p) # None]_vars

C9_Witness == pc = "done" /\ Len(written[1]) + Len(written[2]) > 0

\* C10: the with-deps install is started only if the no-deps install exited
\* with status zero; when the no-deps install fails, it never runs.
C10_ShortCircuit ==
  /\ Len(procs) >= 3 => (~procs[2].alive /\ procs[2].rc = 0)
  /\ (Len(procs) >= 2 /\ ~procs[2].alive /\ procs[2].rc # 0) => Len(procs) = 2

C10_Witness ==
  /\ pc = "done"
  /\ Len(procs) = 2
  /\ procs[2].rc # 0
  /\ HasArg(procs[2].argv, "--no-deps")
====
